---- MODULE Spec2Model ----
(***************************************************************************)
(* TypeScriptPlugin of svelte-language-server: the bridge that answers     *)
(* diagnostics, hover, document-symbol and completion queries for the      *)
(* script fragment of a document by delegating to a language service.      *)
(*                                                                         *)
(* The plugin object holds `host` and `createDocument`; everything else    *)
(* the queries touch lives in the host (configuration, document store,     *)
(* locks) or in the language-service cache behind                          *)
(* getLanguageServiceForDocument.  Each query is one action; what the      *)
(* engine answers is an input of the action.  `last` records the call the  *)
(* plugin has just served: what it read, what it called, what it returned. *)
(***************************************************************************)
EXTENDS Integers, Sequences, FiniteSets, TLC

VARIABLES
    host,       \* this.host: NoHost before onRegister
    version,    \* version counter of every host document
    hostDocs,   \* the host's document store: uri -> opened document
    locked,     \* uris pinned by host.lockDocument
    services,   \* context cache: document identity -> last built context
    built,      \* per document, the version every context so far was built
                \* against, in build order (a context's id is its index)
    returned,   \* per document, the context the previous lookup returned
    last        \* the query served last

vars == <<host, version, hostDocs, locked, services, built, returned, last>>

----------------------------------------------------------------------------
(* Bounds *)

MaxVersion == 1         \* edits per document
MaxDiagnostics == 2     \* diagnostics per engine answer
MaxEntries == 2         \* entries per completion list
MaxNodes == 3           \* nodes per navigation tree
LineLength == 4         \* characters per line of a document

----------------------------------------------------------------------------
(* The host: configuration and documents *)

NoHost == "undefined"
TheHost == "host"

DiagnosticsFlag == "typescript.diagnostics.enable"
HoverFlag == "typescript.hover.enable"
DocumentSymbolsFlag == "typescript.documentSymbols.enable"
CompletionsFlag == "typescript.completions.enable"
Flags == {DiagnosticsFlag, HoverFlag, DocumentSymbolsFlag, CompletionsFlag}

\* What host.getConfig answers during one query: a value for every key.
Configs == [Flags -> BOOLEAN]

getConfig(config, key) == config[key]

\* Documents, by file path.  The first holds a typed script, the second an
\* untyped one.
Docs == {"/a.svelte", "/b.svelte"}

getFilePath(document) == document

getURL(document) == "file://" \o document

getAttributes(document) ==
    IF document = "/a.svelte"
    THEN [tag |-> "script", lang |-> "typescript"]
    ELSE [tag |-> "script", lang |-> "javascript"]

getText(document) == document \o "@" \o ToString(version[document])

getScriptKindFromAttributes(attributes) ==
    IF attributes.lang \in {"ts", "typescript", "text/typescript"}
    THEN "TS"
    ELSE "JS"

positionAt(document, offset) ==
    [line |-> offset \div LineLength, character |-> offset % LineLength]

offsetAt(document, position) ==
    position.line * LineLength + position.character

convertRange(document, span) ==
    [start |-> positionAt(document, span.start),
     end |-> positionAt(document, span.start + span.length)]

----------------------------------------------------------------------------
(* Virtual Document Factory: this.createDocument, set by onRegister *)

URLfile(fileName) == "file://" \o fileName

openDocument(store, document) ==
    [u \in DOMAIN store \cup {document.uri} |->
        IF u = document.uri THEN document ELSE store[u]]

lockDocument(locks, uri) == locks \cup {uri}

\* Plausible slip: the lock is taken on the file name, not on the uri.
createDocumentLockingFileName(store, locks, fileName, content) ==
    LET uri == URLfile(fileName)
        document == [uri |-> uri, text |-> content, languageId |-> "", version |-> 0]
    IN  [document |-> document,
         hostDocs |-> openDocument(store, document),
         locked |-> lockDocument(locks, fileName),
         calls |-> << [fn |-> "openDocument", uri |-> uri, document |-> document],
                      [fn |-> "lockDocument", uri |-> fileName] >>]

createDocument(store, locks, fileName, content) ==
    LET uri == URLfile(fileName)
        document == [uri |-> uri, text |-> content, languageId |-> "", version |-> 0]
    IN  [document |-> document,
         hostDocs |-> openDocument(store, document),
         locked |-> lockDocument(locks, uri),
         calls |-> << [fn |-> "openDocument", uri |-> uri, document |-> document],
                      [fn |-> "lockDocument", uri |-> uri] >>]

----------------------------------------------------------------------------
(* Analysis Context Cache: getLanguageServiceForDocument *)

NoEntry == [ctx |-> 0, version |-> -1]

MaxContexts == MaxVersion + 2

virtualFileName(document) ==
    getFilePath(document) \o
        (IF getScriptKindFromAttributes(getAttributes(document)) = "TS"
         THEN ".ts" ELSE ".js")

\* A fresh context for the document's current version, bound to a virtual
\* document made by the factory.
buildContext(document) ==
    LET made == createDocument(hostDocs, locked, virtualFileName(document), getText(document))
        ctx == Len(built[document]) + 1
    IN  [ctx |-> ctx,
         built |-> [built EXCEPT ![document] = Append(@, version[document])],
         hostDocs |-> made.hostDocs,
         locked |-> made.locked,
         requests |-> << [fileName |-> virtualFileName(document), content |-> getText(document)] >>,
         calls |-> << [fn |-> "createLanguageService", uri |-> getURL(document)] >> \o made.calls]

getLanguageServiceForDocument(document) ==
    LET entry == services[document]
    IN  IF entry # NoEntry /\ entry.version = version[document]
        THEN [ctx |-> entry.ctx,
              services |-> services,
              built |-> built,
              hostDocs |-> hostDocs,
              locked |-> locked,
              requests |-> << >>,
              calls |-> << >>]
        ELSE LET fresh == buildContext(document)
             IN  [ctx |-> fresh.ctx,
                  services |-> [services EXCEPT ![document] =
                                   [ctx |-> fresh.ctx, version |-> version[document]]],
                  built |-> fresh.built,
                  hostDocs |-> fresh.hostDocs,
                  locked |-> fresh.locked,
                  requests |-> fresh.requests,
                  calls |-> fresh.calls]

----------------------------------------------------------------------------
(* What a query returns, and what the engine answers *)

Items(seq) == [kind |-> "items", items |-> seq]
Null == [kind |-> "null"]
Thrown(error) == [kind |-> "throw", error |-> error]

\* The engine answering nothing (undefined).
Undefined == [kind |-> "undefined"]

ConfigCall(key) == [fn |-> "getConfig", arg |-> key]
LookupCall(document) == [fn |-> "getLanguageServiceForDocument", arg |-> getFilePath(document)]
EngineCall(fn, ctx, document) == [fn |-> fn, arg |-> getFilePath(document), ctx |-> ctx]

NoQuery ==
    [op |-> "none", document |-> "", enabled |-> FALSE, version |-> 0,
     prev |-> NoEntry, ctx |-> 0, calls |-> << >>, requests |-> << >>,
     input |-> Undefined, symbols |-> << >>, result |-> Null]

\* The flag read false: the query returns at once, nothing else is touched.
Refuse(op, document, config, key, input, empty) ==
    /\ last' = [op |-> op, document |-> document, enabled |-> config[key],
                version |-> version[document], prev |-> returned[document],
                ctx |-> 0, calls |-> << ConfigCall(key) >>, requests |-> << >>,
                input |-> input, symbols |-> << >>, result |-> empty]
    /\ UNCHANGED <<host, version, hostDocs, locked, services, built, returned>>

\* The flag read true: the context `lang` was resolved, the engine was asked
\* `engineCalls`, and the query returns `result`.
Serve(op, document, config, key, lang, engineCalls, input, symbols, result) ==
    /\ Len(lang.built[document]) <= MaxContexts
    /\ services' = lang.services
    /\ built' = lang.built
    /\ hostDocs' = lang.hostDocs
    /\ locked' = lang.locked
    /\ returned' = [returned EXCEPT ![document] =
                       [ctx |-> lang.ctx, version |-> version[document]]]
    /\ last' = [op |-> op, document |-> document, enabled |-> config[key],
                version |-> version[document], prev |-> returned[document],
                ctx |-> lang.ctx,
                calls |-> << ConfigCall(key), LookupCall(document) >>
                            \o lang.calls \o engineCalls,
                requests |-> lang.requests,
                input |-> input, symbols |-> symbols, result |-> result]
    /\ UNCHANGED <<host, version>>

----------------------------------------------------------------------------
(* getDiagnostics *)

RECURSIVE flattenDiagnosticMessageText(_)
flattenDiagnosticMessageText(messageText) ==
    IF Len(messageText) = 1
    THEN messageText[1]
    ELSE messageText[1] \o "\n" \o flattenDiagnosticMessageText(Tail(messageText))

EngineDiagnostics ==
    { [start |-> 0, length |-> 2, category |-> "Error",
       messageText |-> << "';' expected." >>],
      [start |-> 5, length |-> 3, category |-> "Warning",
       messageText |-> << "Type mismatch.", "Not assignable." >>],
      [start |-> 2, length |-> 1, category |-> "Suggestion",
       messageText |-> << "Unused." >>] }

SeqsUpTo(S, n) == UNION { [1..k -> S] : k \in 0..n }

DiagnosticLists == SeqsUpTo(EngineDiagnostics, MaxDiagnostics)

\* Plausible slip: the guard copied from doHover reads the hover flag.
DiagnosticsEnabledReadingHoverFlag(config) == getConfig(config, HoverFlag)

DiagnosticsEnabled(config) == getConfig(config, DiagnosticsFlag)

DiagnosticsLang(document) == getLanguageServiceForDocument(document)

isTypescript(document) ==
    getScriptKindFromAttributes(getAttributes(document)) = "TS"

\* Plausible slip: the semantic query is issued for every script kind.
semanticRequestedAlways(document) == TRUE

semanticRequested(document) == isTypescript(document)

diagnosticsEngineCalls(document, ctx) ==
    << EngineCall("getSyntacticDiagnostics", ctx, document) >>
        \o (IF semanticRequested(document)
            THEN << EngineCall("getSemanticDiagnostics", ctx, document) >>
            ELSE << >>)

collectDiagnostics(document, syntactic, semantic) ==
    IF semanticRequested(document) THEN syntactic \o semantic ELSE syntactic

diagnosticSource(document) == IF isTypescript(document) THEN "ts" ELSE "js"

mapDiagnostic(document, diagnostic) ==
    [range |-> convertRange(document, diagnostic),
     severity |-> "Error",
     source |-> diagnosticSource(document),
     message |-> flattenDiagnosticMessageText(diagnostic.messageText)]

mapDiagnostics(document, diagnostics) ==
    [i \in 1..Len(diagnostics) |-> mapDiagnostic(document, diagnostics[i])]

\* The queries are served from registration on: before onRegister this.host
\* is unset and no query can read its flag.
GetDiagnostics(config, document, syntactic, semantic) ==
    /\ host # NoHost
    /\ LET input == [kind |-> "diagnostics", syntactic |-> syntactic, semantic |-> semantic]
       IN  IF ~ DiagnosticsEnabled(config)
           THEN Refuse("getDiagnostics", document, config, DiagnosticsFlag, input, Items(<< >>))
           ELSE LET lang == DiagnosticsLang(document)
                IN  Serve("getDiagnostics", document, config, DiagnosticsFlag, lang,
                          diagnosticsEngineCalls(document, lang.ctx), input, << >>,
                          Items(mapDiagnostics(document,
                                    collectDiagnostics(document, syntactic, semantic))))

----------------------------------------------------------------------------
(* doHover *)

Positions == { [line |-> 0, character |-> 1], [line |-> 1, character |-> 2] }

RECURSIVE displayPartsToString(_)
displayPartsToString(displayParts) ==
    IF displayParts = << >> THEN ""
    ELSE displayParts[1].text \o displayPartsToString(Tail(displayParts))

QuickInfos ==
    { [kind |-> "QuickInfo", textSpan |-> [start |-> 1, length |-> 3],
       displayParts |-> << [text |-> "const", kind |-> "keyword"],
                           [text |-> " ", kind |-> "space"],
                           [text |-> "x", kind |-> "localName"] >>],
      [kind |-> "QuickInfo", textSpan |-> [start |-> 6, length |-> 2],
       displayParts |-> << >>] }

HoverEnabled(config) == getConfig(config, HoverFlag)

HoverLang(document) == getLanguageServiceForDocument(document)

hoverEngineCalls(document, position, ctx) ==
    << [fn |-> "getQuickInfoAtPosition", arg |-> getFilePath(document), ctx |-> ctx,
        offset |-> offsetAt(document, position)] >>

\* Plausible slip: no check of the engine's answer before it is read.
hoverResultUnchecked(document, info) ==
    IF info.kind = "undefined"
    THEN Thrown("TypeError")
    ELSE [kind |-> "hover",
          range |-> convertRange(document, info.textSpan),
          contents |-> [language |-> "ts",
                        value |-> displayPartsToString(info.displayParts)]]

hoverResult(document, info) ==
    IF info.kind = "undefined"
    THEN Null
    ELSE [kind |-> "hover",
          range |-> convertRange(document, info.textSpan),
          contents |-> [language |-> "ts",
                        value |-> displayPartsToString(info.displayParts)]]

DoHover(config, document, position, info) ==
    /\ host # NoHost
    /\ LET input == [kind |-> "quickInfo", position |-> position, info |-> info]
       IN  IF ~ HoverEnabled(config)
           THEN Refuse("doHover", document, config, HoverFlag, input, Null)
           ELSE LET lang == HoverLang(document)
                IN  Serve("doHover", document, config, HoverFlag, lang,
                          hoverEngineCalls(document, position, lang.ctx), input, << >>,
                          hoverResult(document, info))

----------------------------------------------------------------------------
(* getDocumentSymbols *)

\* container of the root: collectSymbols(navTree, undefined, ...)
NoContainer == "undefined"

NodeLabels ==
    { [text |-> "R", kind |-> "module"],
      [text |-> "A", kind |-> "class"],
      [text |-> "B", kind |-> "method"] }

SpanLists ==
    { << >>,
      << [start |-> 1, length |-> 5] >>,
      << [start |-> 2, length |-> 1], [start |-> 6, length |-> 3] >> }

RECURSIVE TreesOfSize(_), ForestsOfSize(_)
TreesOfSize(n) ==
    { [text |-> l.text, kind |-> l.kind, spans |-> sp, childItems |-> f] :
        l \in NodeLabels, sp \in SpanLists, f \in ForestsOfSize(n - 1) }

ForestsOfSize(n) ==
    IF n = 0 THEN { << >> }
    ELSE UNION { { << t >> \o f : t \in TreesOfSize(k), f \in ForestsOfSize(n - k) } :
                    k \in 1..n }

NavigationTrees(maxNodes) == UNION { TreesOfSize(n) : n \in 1..maxNodes }

symbolKindFromString(kind) ==
    CASE kind = "module" -> "Module"
      [] kind = "class" -> "Class"
      [] kind = "method" -> "Method"
      [] OTHER -> "Variable"

DocumentSymbolsEnabled(config) == getConfig(config, DocumentSymbolsFlag)

\* Plausible slip: the query builds its own context instead of asking the cache.
DocumentSymbolsLangBypassingCache(document) ==
    LET fresh == buildContext(document)
    IN  [ctx |-> fresh.ctx, services |-> services, built |-> fresh.built,
         hostDocs |-> fresh.hostDocs, locked |-> fresh.locked,
         requests |-> fresh.requests, calls |-> fresh.calls]

DocumentSymbolsLang(document) == getLanguageServiceForDocument(document)

symbolsEngineCalls(document, ctx) ==
    << EngineCall("getNavigationTree", ctx, document) >>

\* Plausible slip: the range ends with the first span, not the last.
symbolRangeOfFirstSpan(document, spans) ==
    [start |-> positionAt(document, spans[1].start),
     end |-> positionAt(document, spans[1].start + spans[1].length)]

symbolRange(document, spans) ==
    [start |-> positionAt(document, spans[1].start),
     end |-> positionAt(document, spans[Len(spans)].start + spans[Len(spans)].length)]

emitSymbol(document, tree, container) ==
    IF Len(tree.spans) > 0
    THEN << [name |-> tree.text,
             kind |-> symbolKindFromString(tree.kind),
             location |-> [uri |-> getURL(document),
                           range |-> symbolRange(document, tree.spans)],
             containerName |-> container] >>
    ELSE << >>

\* Plausible slip: a node without spans hands its own container down.
childContainerSkippingSpanless(tree, container) ==
    IF Len(tree.spans) > 0 THEN tree.text ELSE container

childContainer(tree, container) == tree.text

RECURSIVE collectSymbols(_, _, _), collectChildren(_, _, _)
collectSymbols(document, tree, container) ==
    emitSymbol(document, tree, container)
        \o collectChildren(document, tree.childItems, childContainer(tree, container))

collectChildren(document, childItems, container) ==
    IF childItems = << >> THEN << >>
    ELSE collectSymbols(document, Head(childItems), container)
            \o collectChildren(document, Tail(childItems), container)

\* symbols[0].name, then symbols.slice(1).map(...): reading .name of the
\* missing first element throws a TypeError.
reparentSymbols(symbols) ==
    IF symbols = << >>
    THEN Thrown("TypeError")
    ELSE LET topContainerName == symbols[1].name
         IN  Items([i \in 1..(Len(symbols) - 1) |->
                      IF symbols[i + 1].containerName = topContainerName
                      THEN [symbols[i + 1] EXCEPT !.containerName = "script"]
                      ELSE symbols[i + 1]])

GetDocumentSymbols(config, document, navTree) ==
    /\ host # NoHost
    /\ LET input == [kind |-> "navigationTree", navTree |-> navTree]
       IN  IF ~ DocumentSymbolsEnabled(config)
           THEN Refuse("getDocumentSymbols", document, config, DocumentSymbolsFlag, input, Items(<< >>))
           ELSE LET lang == DocumentSymbolsLang(document)
                    symbols == collectSymbols(document, navTree, NoContainer)
                IN  Serve("getDocumentSymbols", document, config, DocumentSymbolsFlag, lang,
                          symbolsEngineCalls(document, lang.ctx), input, symbols,
                          reparentSymbols(symbols))

----------------------------------------------------------------------------
(* getCompletions *)

TriggerCharacters == { "undefined", "." }

CompletionEntries ==
    [name : {"foo", "bar"}, kind : {"method", "keyword"},
     sortText : {"0", "1"}, isRecommended : BOOLEAN]

CompletionLists ==
    { Undefined } \cup
    { [kind |-> "CompletionInfo", entries |-> e] :
        e \in SeqsUpTo(CompletionEntries, MaxEntries) }

scriptElementKindToCompletionItemKind(kind) ==
    CASE kind = "method" -> "Method"
      [] kind = "keyword" -> "Keyword"
      [] OTHER -> "Property"

getCommitCharactersForScriptElement(kind) ==
    CASE kind = "method" -> << ".", ",", "(" >>
      [] OTHER -> << >>

CompletionsEnabled(config) == getConfig(config, CompletionsFlag)

CompletionsLang(document) == getLanguageServiceForDocument(document)

completionsEngineCalls(document, position, triggerCharacter, ctx) ==
    << [fn |-> "getCompletionsAtPosition", arg |-> getFilePath(document), ctx |-> ctx,
        offset |-> offsetAt(document, position),
        includeCompletionsForModuleExports |-> TRUE,
        triggerCharacter |-> triggerCharacter] >>

\* Plausible slip: the label is taken from the sort text.
mapCompletionLabelFromSortText(comp) ==
    [label |-> comp.sortText,
     kind |-> scriptElementKindToCompletionItemKind(comp.kind),
     sortText |-> comp.sortText,
     commitCharacters |-> getCommitCharactersForScriptElement(comp.kind),
     preselect |-> comp.isRecommended]

mapCompletion(comp) ==
    [label |-> comp.name,
     kind |-> scriptElementKindToCompletionItemKind(comp.kind),
     sortText |-> comp.sortText,
     commitCharacters |-> getCommitCharactersForScriptElement(comp.kind),
     preselect |-> comp.isRecommended]

completionsResult(completions) ==
    IF completions.kind = "undefined"
    THEN Items(<< >>)
    ELSE Items([i \in 1..Len(completions.entries) |-> mapCompletion(completions.entries[i])])

GetCompletions(config, document, position, triggerCharacter, completions) ==
    /\ host # NoHost
    /\ LET input == [kind |-> "completions", position |-> position,
                     triggerCharacter |-> triggerCharacter, completions |-> completions]
       IN  IF ~ CompletionsEnabled(config)
           THEN Refuse("getCompletions", document, config, CompletionsFlag, input, Items(<< >>))
           ELSE LET lang == CompletionsLang(document)
                IN  Serve("getCompletions", document, config, CompletionsFlag, lang,
                          completionsEngineCalls(document, position, triggerCharacter, lang.ctx),
                          input, << >>, completionsResult(completions))

----------------------------------------------------------------------------
(* The host's own steps *)

OnRegister ==
    /\ host = NoHost
    /\ host' = TheHost
    /\ UNCHANGED <<version, hostDocs, locked, services, built, returned, last>>

Edit(document) ==
    /\ version[document] < MaxVersion
    /\ version' = [version EXCEPT ![document] = @ + 1]
    /\ UNCHANGED <<host, hostDocs, locked, services, built, returned, last>>

----------------------------------------------------------------------------
(* Specifications *)

Init ==
    /\ host = NoHost
    /\ version = [d \in Docs |-> 0]
    /\ hostDocs = << >>
    /\ locked = { }
    /\ services = [d \in Docs |-> NoEntry]
    /\ built = [d \in Docs |-> << >>]
    /\ returned = [d \in Docs |-> NoEntry]
    /\ last = NoQuery

\* The bridge as a whole: registration, edits, and the four queries in any
\* order, each engine query answered either with nothing or with one item.
OneDiagnostic == { s \in DiagnosticLists : Len(s) = 1 /\ s[1].category = "Error" }
OneQuickInfo == { q \in QuickInfos : q.displayParts # << >> }
OnePosition == { p \in Positions : p.line = 0 }
OneNavigationTree ==
    { t \in TreesOfSize(1) : t.text = "R" /\ Len(t.spans) <= 1 }
OneCompletionList ==
    { c \in CompletionLists :
        /\ c.kind # "undefined"
        /\ Len(c.entries) = 1
        /\ c.entries[1] = [name |-> "foo", kind |-> "method", sortText |-> "0",
                           isRecommended |-> TRUE] }

Next ==
    \/ OnRegister
    \/ \E document \in Docs : Edit(document)
    \/ \E config \in Configs, document \in Docs,
          syntactic \in { << >> } \cup OneDiagnostic,
          semantic \in { << >> } \cup OneDiagnostic :
          GetDiagnostics(config, document, syntactic, semantic)
    \/ \E config \in Configs, document \in Docs, position \in OnePosition,
          info \in { Undefined } \cup OneQuickInfo :
          DoHover(config, document, position, info)
    \/ \E config \in Configs, document \in Docs, navTree \in OneNavigationTree :
          GetDocumentSymbols(config, document, navTree)
    \/ \E config \in Configs, document \in Docs, position \in OnePosition,
          completions \in { Undefined } \cup OneCompletionList :
          GetCompletions(config, document, position, ".", completions)

Spec == Init /\ [][Next]_vars

\* One query served by a freshly registered plugin, over every engine answer
\* within the bounds.
InitServing ==
    /\ host = TheHost
    /\ version = [d \in Docs |-> 0]
    /\ hostDocs = << >>
    /\ locked = { }
    /\ services = [d \in Docs |-> NoEntry]
    /\ built = [d \in Docs |-> << >>]
    /\ returned = [d \in Docs |-> NoEntry]
    /\ last = NoQuery

FirstQuery == last.op = "none"

NextDiagnostics ==
    /\ FirstQuery
    /\ \E config \in Configs, document \in Docs,
          syntactic \in DiagnosticLists, semantic \in DiagnosticLists :
          GetDiagnostics(config, document, syntactic, semantic)

SpecDiagnostics == InitServing /\ [][NextDiagnostics]_vars

NextCompletions ==
    /\ FirstQuery
    /\ \E config \in Configs, document \in Docs, position \in Positions,
          triggerCharacter \in TriggerCharacters, completions \in CompletionLists :
          GetCompletions(config, document, position, triggerCharacter, completions)

SpecCompletions == InitServing /\ [][NextCompletions]_vars

NextSymbols ==
    /\ FirstQuery
    /\ \E config \in Configs, document \in Docs, navTree \in NavigationTrees(MaxNodes) :
          GetDocumentSymbols(config, document, navTree)

SpecSymbols == InitServing /\ [][NextSymbols]_vars

----------------------------------------------------------------------------
(* Reading the record of the last query *)

Served == last.op # "none" /\ last.enabled
Refused == last.op # "none" /\ ~ last.enabled

EmptyResult(op) == IF op = "doHover" THEN Null ELSE Items(<< >>)

CallNames(calls) == [i \in 1..Len(calls) |-> calls[i].fn]

EngineQueries ==
    { "getSyntacticDiagnostics", "getSemanticDiagnostics", "getQuickInfoAtPosition",
      "getNavigationTree", "getCompletionsAtPosition" }

IsEngineQuery(call) == call.fn \in EngineQueries

Typed(document) == getAttributes(document).lang \in {"ts", "typescript", "text/typescript"}

\* Nodes of a navigation tree, by path: the root is << >>, and p \o << k >> is
\* the k-th child of the node at p.
RECURSIVE NodeAt(_, _)
NodeAt(tree, path) ==
    IF path = << >> THEN tree ELSE NodeAt(tree.childItems[Head(path)], Tail(path))

RECURSIVE PathsOf(_)
PathsOf(tree) ==
    { << >> } \cup
    UNION { { << k >> \o p : p \in PathsOf(tree.childItems[k]) } :
              k \in 1..Len(tree.childItems) }

Parent(path) == SubSeq(path, 1, Len(path) - 1)

\* p comes before q in pre-order: p is an ancestor of q, or p branches off
\* to the left of q.
Before(p, q) ==
    \/ Len(p) < Len(q) /\ SubSeq(q, 1, Len(p)) = p
    \/ \E k \in 1..Len(p) :
          /\ k <= Len(q)
          /\ SubSeq(p, 1, k - 1) = SubSeq(q, 1, k - 1)
          /\ p[k] < q[k]

SpanPaths(tree) == { p \in PathsOf(tree) : Len(NodeAt(tree, p).spans) > 0 }

\* The paths of S in pre-order.
InPreOrder(S) ==
    [i \in 1..Cardinality(S) |->
        CHOOSE p \in S : Cardinality({ q \in S : Before(q, p) }) = i - 1]

----------------------------------------------------------------------------
(* Claims *)

\* C1: a query whose own flag reads false returns the empty result (absent
\* for hover, an empty sequence otherwise) and calls nothing but getConfig:
\* not the document factory, not the context cache, not the engine; this
\* holds for every setting of the other three flags.
C1_FlagGating ==
    Refused =>
        /\ last.result = EmptyResult(last.op)
        /\ \A i \in 1..Len(last.calls) : last.calls[i].fn = "getConfig"
        /\ last.ctx = 0
        /\ last.requests = << >>

C1_Witness ==
    /\ Refused
    /\ last.op = "getDiagnostics"
    /\ built[last.document] # << >>

\* C2: a lookup for a document whose version is the one of the previous
\* lookup returns the same context and builds nothing; a lookup after the
\* version changed returns another context; and the context a lookup
\* returns was always built for this document at its current version.
C2_CacheCorrect ==
    Served =>
        /\ last.ctx \in 1..Len(built[last.document])
        /\ built[last.document][last.ctx] = last.version
        /\ (last.prev # NoEntry /\ last.prev.version = last.version) =>
              /\ last.ctx = last.prev.ctx
              /\ last.requests = << >>
              /\ \A i \in 1..Len(last.calls) : last.calls[i].fn # "createLanguageService"
        /\ (last.prev # NoEntry /\ last.prev.version # last.version) =>
              last.ctx # last.prev.ctx

C2_Witness ==
    /\ Served
    /\ last.op = "getDocumentSymbols"
    /\ last.prev # NoEntry
    /\ last.prev.version # last.version
    /\ Len(built[last.document]) >= 2

\* C5: an enabled diagnostics query asks the engine for syntactic
\* diagnostics, and then for semantic ones exactly when the script is typed;
\* it returns one record per engine diagnostic, syntactic before semantic,
\* each in engine order, all of severity Error, tagged "ts" for a typed and
\* "js" for an untyped script.
C5_Diagnostics ==
    (Served /\ last.op = "getDiagnostics") =>
        LET typed == Typed(last.document)
            expected == IF typed
                        THEN last.input.syntactic \o last.input.semantic
                        ELSE last.input.syntactic
            items == last.result.items
        IN  /\ CallNames(SelectSeq(last.calls, IsEngineQuery)) =
                  (IF typed
                   THEN << "getSyntacticDiagnostics", "getSemanticDiagnostics" >>
                   ELSE << "getSyntacticDiagnostics" >>)
            /\ last.result.kind = "items"
            /\ Len(items) = Len(expected)
            /\ \A i \in 1..Len(items) :
                  /\ items[i].severity = "Error"
                  /\ items[i].source = (IF typed THEN "ts" ELSE "js")
                  /\ items[i].range.start =
                        positionAt(last.document, expected[i].start)
                  /\ items[i].range.end =
                        positionAt(last.document, expected[i].start + expected[i].length)
                  /\ items[i].message = flattenDiagnosticMessageText(expected[i].messageText)

C5_Witness ==
    /\ Served
    /\ last.op = "getDiagnostics"
    /\ Typed(last.document)
    /\ Len(last.input.syntactic) = 1
    /\ Len(last.input.semantic) = 1
    /\ last.input.syntactic # last.input.semantic
    /\ Len(last.result.items) = 2

\* C6: when the engine answers nothing, an enabled hover query returns the
\* absent result and an enabled completions query the empty sequence, which
\* is what each returns when its flag is off; neither throws.
C6_NoResult ==
    /\ (Served /\ last.op = "doHover" /\ last.input.info.kind = "undefined") =>
          last.result = EmptyResult("doHover")
    /\ (Served /\ last.op = "getCompletions" /\ last.input.completions.kind = "undefined") =>
          last.result = EmptyResult("getCompletions")
    /\ (Served /\ last.op \in {"doHover", "getCompletions"}) => last.result.kind # "throw"

C6_Witness ==
    /\ Served
    /\ last.op = "doHover"
    /\ last.input.info.kind = "undefined"
    /\ last.result = Null

\* C7: an enabled completions query that got a list returns one record per
\* entry, in the engine's order, with the entry's name as label, its sort
\* text as sort key and its recommended flag as preselect; entries of equal
\* kind get equal kinds and equal commit characters.
C7_CompletionMapping ==
    (Served /\ last.op = "getCompletions" /\ last.input.completions.kind # "undefined") =>
        LET entries == last.input.completions.entries
            items == last.result.items
        IN  /\ last.result.kind = "items"
            /\ Len(items) = Len(entries)
            /\ \A i \in 1..Len(items) :
                  /\ items[i].label = entries[i].name
                  /\ items[i].sortText = entries[i].sortText
                  /\ items[i].preselect = entries[i].isRecommended
            /\ \A i, j \in 1..Len(items) :
                  entries[i].kind = entries[j].kind =>
                      /\ items[i].kind = items[j].kind
                      /\ items[i].commitCharacters = items[j].commitCharacters

C7_Witness ==
    /\ Served
    /\ last.op = "getCompletions"
    /\ last.input.completions.kind # "undefined"
    /\ Len(last.result.items) = 2
    /\ last.result.items[1].label = "foo"
    /\ last.result.items[1].preselect
    /\ last.result.items[2].label = "bar"
    /\ last.result.items[1].kind # last.result.items[2].kind

\* C8: every request to the document factory opens a document at the uri of
\* the file name, with the given content, an empty language id and version
\* 0, and locks that uri next; every document in the store is locked, and no
\* step unlocks or removes one.
C8_VirtualDocuments ==
    /\ [](/\ \A i \in 1..Len(last.requests) :
                LET uri == URLfile(last.requests[i].fileName)
                IN  \E j \in 1..(Len(last.calls) - 1) :
                       /\ last.calls[j].fn = "openDocument"
                       /\ last.calls[j].document =
                             [uri |-> uri, text |-> last.requests[i].content,
                              languageId |-> "", version |-> 0]
                       /\ last.calls[j + 1] = [fn |-> "lockDocument", uri |-> uri]
          /\ \A u \in DOMAIN hostDocs :
                /\ u \in locked
                /\ hostDocs[u].uri = u
                /\ hostDocs[u].languageId = ""
                /\ hostDocs[u].version = 0)
    /\ [][/\ locked \subseteq locked'
          /\ DOMAIN hostDocs \subseteq DOMAIN hostDocs']_vars

C8_Witness ==
    /\ Cardinality(DOMAIN hostDocs) = 2
    /\ Len(built[last.document]) >= 2
    /\ Len(last.requests) = 1

\* C3: for a navigation tree with a span somewhere (the tree without any
\* span is C4's), an enabled symbols query returns one record per node with
\* spans other than the root, in pre-order; a record of a child of the root
\* carries the generic container "script", every other record the name of
\* its parent node.
C3_Reparenting ==
    (Served /\ last.op = "getDocumentSymbols"
        /\ SpanPaths(last.input.navTree) # { }) =>
        LET tree == last.input.navTree
            paths == InPreOrder(SpanPaths(tree) \ { << >> })
            items == last.result.items
        IN  /\ last.result.kind = "items"
            /\ Len(items) = Len(paths)
            /\ \A i \in 1..Len(items) :
                  /\ items[i].name = NodeAt(tree, paths[i]).text
                  /\ items[i].containerName =
                        (IF Len(paths[i]) = 1
                         THEN "script"
                         ELSE NodeAt(tree, Parent(paths[i])).text)

\* C4: an enabled symbols query on a navigation tree without any span
\* returns the empty sequence, and does not throw.
C4_EmptyTree ==
    (Served /\ last.op = "getDocumentSymbols"
        /\ SpanPaths(last.input.navTree) = { }) =>
        last.result = Items(<< >>)

\* C9: a node without spans emits no record (there are as many records as
\* nodes with spans), and each of its children with spans is still emitted,
\* with the name of that node as container.
C9_SpanlessNodes ==
    (Served /\ last.op = "getDocumentSymbols") =>
        LET tree == last.input.navTree
            paths == InPreOrder(SpanPaths(tree))
        IN  /\ Len(last.symbols) = Len(paths)
            /\ \A i \in 1..Len(paths) :
                  (paths[i] # << >> /\ NodeAt(tree, Parent(paths[i])).spans = << >>) =>
                      /\ Len(last.symbols) >= i
                      /\ last.symbols[i].name = NodeAt(tree, paths[i]).text
                      /\ last.symbols[i].containerName =
                            NodeAt(tree, Parent(paths[i])).text

C9_Witness ==
    /\ Served
    /\ last.op = "getDocumentSymbols"
    /\ Len(last.symbols) = 1
    /\ LET tree == last.input.navTree
       IN  /\ tree.text = "R"
           /\ Len(tree.childItems) = 1
           /\ tree.childItems[1].text = "A"
           /\ tree.childItems[1].spans = << >>
           /\ Len(tree.childItems[1].childItems) = 1
           /\ tree.childItems[1].childItems[1].text = "B"
           /\ last.symbols[1].name = "B"
           /\ last.symbols[1].containerName = "A"

\* C10: collectSymbols emits every node with spans once, in pre-order (a
\* node before its descendants, children in their order), with a range from
\* the position of the start of its first span to the position of the end
\* of its last span, and with the name of its parent as container (none for
\* the root).
C10_PreOrder ==
    (Served /\ last.op = "getDocumentSymbols") =>
        LET tree == last.input.navTree
            paths == InPreOrder(SpanPaths(tree))
        IN  /\ Len(last.symbols) = Len(paths)
            /\ \A i \in 1..Len(last.symbols) :
                  LET node == NodeAt(tree, paths[i])
                      first == node.spans[1]
                      final == node.spans[Len(node.spans)]
                      symbol == last.symbols[i]
                  IN  /\ symbol.name = node.text
                      /\ symbol.location.range.start =
                            [line |-> first.start \div LineLength,
                             character |-> first.start % LineLength]
                      /\ symbol.location.range.end =
                            [line |-> (final.start + final.length) \div LineLength,
                             character |-> (final.start + final.length) % LineLength]
                      /\ symbol.containerName =
                            (IF paths[i] = << >>
                             THEN NoContainer
                             ELSE NodeAt(tree, Parent(paths[i])).text)

C10_Witness ==
    /\ Served
    /\ last.op = "getDocumentSymbols"
    /\ Len(last.symbols) = 3
    /\ LET tree == last.input.navTree
       IN  /\ Len(tree.spans) = 2
           /\ Len(tree.childItems) = 2
           /\ tree.childItems[1].text = "A"
           /\ tree.childItems[2].text = "B"
    /\ last.symbols[2].name = "A"
    /\ last.symbols[3].name = "B"
    /\ last.symbols[1].containerName = NoContainer
    /\ last.symbols[1].location.range.end.line = 2

====
